---- MODULE Spec2Model ----
(***************************************************************************)
(* Membership and user controllers of the secret-santa backend             *)
(* (src/unnamed/part_000), modelled as a state machine over the document   *)
(* store.  Every awaited store operation of a handler is one atomic step;  *)
(* handlers of different requests, and the per-email tasks of one          *)
(* batch-invite, interleave between awaits.                                *)
(***************************************************************************)
EXTENDS Naturals, Integers, Sequences, FiniteSets, TLC

\* ------------------------------------------------------------------ bounds
\* Membership documents ever inserted (ObjectIds are never reused).
MaxMemberships == 2
\* User documents ever inserted.
MaxUsers == 2
\* Requests accepted in one behaviour.
MaxRequests == 3

\* ------------------------------------------------------------- input sets
\* Request handlers that may be in flight at the same time.
Procs == {"p1", "p2"}
\* Group documents of the Group collection and their owner (group management
\* is outside src/; the collection is fixed here).
Groups == {"g1", "g2"}
MissingGroup == "g3"
GroupIds == Groups \cup {MissingGroup}
OwnerOf(g) == "u1"
Emails == {"a@x.com", "b@x.com"}
UidName == <<"u1", "u2", "u3", "u4">>
UserIds == {"u1", "u2"}
\* req.body.email of POST /groups/:groupId/members
Batches == {<< >>, <<"a@x.com">>, <<"b@x.com">>, <<"b@x.com", "b@x.com">>,
            <<"a@x.com", "b@x.com">>}

NoUser == "none"
NoMail == "none"
NoGroup == "none"
NoResponse == 0

VARIABLES
    memberships,   \* Membership collection: set of documents
    nextId,        \* next Membership _id
    users,         \* User collection: set of documents
    nextUid,       \* next User _id (index into UidName)
    calls,         \* per handler: the request in flight and its position
    started,       \* requests accepted so far
    resp,          \* the response sent by the last step (res.status(..).json(..)), if any
    priorInvite    \* history: (group, email) pairs a completed batch-invite covered,
                   \* with no removal and no change of the User collection since

vars == <<memberships, nextId, users, nextUid, calls, started, resp, priorInvite>>

\* ------------------------------------------------------------------ store
\* mutant: the group check lets every identifier through
checkGroupExists_Skipped(groupId) == TRUE

\* checkGroupExists: Group.findById(groupId), truthy iff the document exists
checkGroupExists(groupId) == groupId \in Groups

\* mutant: the lookup by email never matches
UserFindOne_Miss(email) == {NoUser}

\* User.findOne({ email }): the documents it may return (none: {NoUser})
UserFindOne(email) ==
    LET hit == {u.id : u \in {x \in users : x.email = email}}
    IN  IF hit = {} THEN {NoUser} ELSE hit

\* Membership.findOne({ invitedMail: email, groupId }) matches
FindInvite(email, groupId) ==
    {m \in memberships : m.invitedMail = email /\ m.groupId = groupId}

\* Membership.findOne({ userId, groupId }) matches
FindMember(userId, groupId) ==
    {m \in memberships : m.userId = userId /\ m.groupId = groupId}

\* mutant: the invite is created already accepted
NewInvite_Accepted(id, email, groupId) ==
    [id |-> id, groupId |-> groupId, userId |-> NoUser, invitedMail |-> email,
     isAccepted |-> TRUE]

\* new Membership({ invitedMail: email, groupId, isAccepted: false })
NewInvite(id, email, groupId) ==
    [id |-> id, groupId |-> groupId, userId |-> NoUser, invitedMail |-> email,
     isAccepted |-> FALSE]

\* mutant: the membership is created already accepted
NewMember_Accepted(id, userId, groupId) ==
    [id |-> id, groupId |-> groupId, userId |-> userId, invitedMail |-> NoMail,
     isAccepted |-> TRUE]

\* new Membership({ userId: user._id, groupId, isAccepted: false })
NewMember(id, userId, groupId) ==
    [id |-> id, groupId |-> groupId, userId |-> userId, invitedMail |-> NoMail,
     isAccepted |-> FALSE]

\* ------------------------------------------------------------ call records
\*   ident  req.params.userId, req.user.id or req.body.email
\*   doc    updateMemberStatus: the document findOne returned
\*   prior  history: emails of the batch a completed call had invited before
\*   quiet  history: no removal and no change of the User collection since the
\*          request was accepted
\*   rejected  addMembers: Promise.all rejected and the catch block answered
Idle ==
    [op |-> "idle", pc |-> "idle", groupId |-> NoGroup, ident |-> NoUser,
     isAccepted |-> FALSE, tasks |-> << >>, doc |-> {}, prior |-> {},
     quiet |-> TRUE, rejected |-> FALSE]

\* What the handler that finished in the last step sent: status and body, with
\* the request it answers.  status = NoResponse: it returned without responding.
\*   results  addMembers: the results array of Promise.all
\*   errors   addMembers 400: positions of the entries of body.errors
\*   created  addMembers 201: ids of body.memberships; updateMemberStatus 200:
\*            id of the returned document when it is a new one
\*   found    updateMemberStatus: the documents findOne matched;
\*            removeMember: the documents the filter of the deleting call matched
\*   deleted  removeMember: the documents deleted
\*   prior    addMembers: emails of the batch a completed call had invited before
NoResp ==
    [op |-> "none", groupId |-> NoGroup, ident |-> NoUser, status |-> NoResponse,
     results |-> << >>, errors |-> {}, created |-> {}, found |-> {}, deleted |-> {},
     prior |-> {}, isMember |-> FALSE, isOwner |-> FALSE, flag |-> FALSE,
     list |-> {}]

\* one per-email task of addMembers (the async callback of email.map)
\*   user  the _id of the document User.findOne returned
\*   hit   whether the existence check matched a document
\*   out   the result returned: "already" ({email, message}) or "created"
\*   doc   the saved document ({email, membership})
NewTask(email) ==
    [pc |-> "findUser", email |-> email, user |-> NoUser, hit |-> FALSE,
     out |-> "pending", doc |-> {}]

\* responses sent so far
Done == started - Cardinality({p \in Procs : calls[p].op # "idle"})

CanStart(p) == calls[p].op = "idle" /\ started < MaxRequests

Init ==
    /\ memberships = {}
    /\ nextId = 1
    /\ users = {[id |-> "u1", email |-> "a@x.com"]}
    /\ nextUid = 2
    /\ calls = [p \in Procs |-> Idle]
    /\ started = 0
    /\ resp = NoResp
    /\ priorInvite = {}

\* --------------------------------------------------------------- addMembers
\* lines 19-27: group check, then email.map starts one task per entry
AddMembersStart(p, groupId, email) ==
    /\ CanStart(p)
    /\ started' = started + 1
    /\ IF ~checkGroupExists(groupId)
       THEN /\ resp' = [NoResp EXCEPT !.op = "addMembers", !.groupId = groupId,
                                      !.status = 404]
            /\ calls' = calls
       ELSE /\ calls' = [calls EXCEPT ![p] =
                  [Idle EXCEPT !.op = "addMembers", !.pc = "tasks",
                               !.groupId = groupId,
                               !.tasks = [i \in 1..Len(email) |-> NewTask(email[i])],
                               !.prior = {e \in Emails :
                                            /\ \E i \in 1..Len(email) : email[i] = e
                                            /\ <<groupId, e>> \in priorInvite}]]
            /\ resp' = NoResp
    /\ UNCHANGED <<memberships, nextId, users, nextUid, priorInvite>>

\* line 29: const user = await User.findOne({ email })
TaskFindUser(p, i) ==
    /\ calls[p].op = "addMembers"
    /\ i \in 1..Len(calls[p].tasks)
    /\ calls[p].tasks[i].pc = "findUser"
    /\ \E u \in UserFindOne(calls[p].tasks[i].email) :
         calls' = [calls EXCEPT ![p].tasks[i].user = u,
                                ![p].tasks[i].pc = "findMembership"]
    /\ resp' = NoResp
    /\ UNCHANGED <<memberships, nextId, users, nextUid, started, priorInvite>>

\* the existence check of one task: lines 31-38 (no user), 49-55 (user)
ExistingMembership(task, groupId) ==
    IF task.user = NoUser
    THEN FindInvite(task.email, groupId)
    ELSE FindMember(task.user, groupId)

TaskFindMembership(p, i) ==
    /\ calls[p].op = "addMembers"
    /\ i \in 1..Len(calls[p].tasks)
    /\ calls[p].tasks[i].pc = "findMembership"
    /\ IF ExistingMembership(calls[p].tasks[i], calls[p].groupId) # {}
       THEN calls' = [calls EXCEPT ![p].tasks[i].pc = "done",
                                   ![p].tasks[i].hit = TRUE,
                                   ![p].tasks[i].out = "already"]
       ELSE calls' = [calls EXCEPT ![p].tasks[i].pc = "save"]
    /\ resp' = NoResp
    /\ UNCHANGED <<memberships, nextId, users, nextUid, started, priorInvite>>

\* the document one task saves: lines 40-44 (no user), 57-61 (user)
TaskDocument(id, task, groupId) ==
    IF task.user = NoUser
    THEN NewInvite(id, task.email, groupId)
    ELSE NewMember(id, task.user, groupId)

\* lines 45-46, 63-64: await membership.save()
TaskSave(p, i) ==
    /\ calls[p].op = "addMembers"
    /\ i \in 1..Len(calls[p].tasks)
    /\ calls[p].tasks[i].pc = "save"
    /\ nextId <= MaxMemberships
    /\ memberships' = memberships \cup
                        {TaskDocument(nextId, calls[p].tasks[i], calls[p].groupId)}
    /\ nextId' = nextId + 1
    /\ calls' = [calls EXCEPT ![p].tasks[i].pc = "done",
                              ![p].tasks[i].out = "created",
                              ![p].tasks[i].doc =
                                  {TaskDocument(nextId, calls[p].tasks[i], calls[p].groupId)}]
    /\ resp' = NoResp
    /\ UNCHANGED <<users, nextUid, started, priorInvite>>

\* mutant: every result is taken for an error
ErrorResults_All(tasks) == 1..Len(tasks)

\* line 68: results.filter((result) => result.message), as input positions
ErrorResults(tasks) == {i \in 1..Len(tasks) : tasks[i].out = "already"}

\* mutant: the success body lists no membership
CreatedResults_Empty(tasks) == {}

\* line 78: results.filter((result) => result.membership), as document ids
CreatedResults(tasks) ==
    UNION {{d.id : d \in tasks[i].doc} : i \in {j \in 1..Len(tasks) : tasks[j].out = "created"}}

\* mutant: the aggregate response ignores the error results
AddMembersStatus_NoErrors(tasks) == 201

\* lines 69-79: the status of the aggregate response
AddMembersStatus(tasks) == IF ErrorResults(tasks) # {} THEN 400 ELSE 201

\* lines 66-79: Promise.all resolved, aggregate and respond
AddMembersRespond(p) ==
    /\ calls[p].op = "addMembers"
    /\ \A i \in 1..Len(calls[p].tasks) : calls[p].tasks[i].pc = "done"
    /\ resp' = [NoResp EXCEPT !.op = "addMembers", !.groupId = calls[p].groupId,
                              !.status = AddMembersStatus(calls[p].tasks),
                              !.results = calls[p].tasks,
                              !.errors = IF AddMembersStatus(calls[p].tasks) = 400
                                         THEN ErrorResults(calls[p].tasks) ELSE {},
                              !.created = IF AddMembersStatus(calls[p].tasks) = 400
                                          THEN {} ELSE CreatedResults(calls[p].tasks),
                              !.prior = calls[p].prior]
    /\ priorInvite' = priorInvite \cup
         {<<calls[p].groupId, calls[p].tasks[i].email>> :
            i \in {j \in 1..Len(calls[p].tasks) : calls[p].quiet}}
    /\ calls' = [calls EXCEPT ![p] = Idle]
    /\ UNCHANGED <<memberships, nextId, users, nextUid, started>>

\* ---------------------------------------------------------- getGroupMembers
\* lines 94-99: group check
GetGroupMembersStart(p, groupId) ==
    /\ CanStart(p)
    /\ started' = started + 1
    /\ IF ~checkGroupExists(groupId)
       THEN /\ resp' = [NoResp EXCEPT !.op = "getGroupMembers", !.groupId = groupId,
                                      !.status = 404]
            /\ calls' = calls
       ELSE /\ calls' = [calls EXCEPT ![p] =
                  [Idle EXCEPT !.op = "getGroupMembers", !.pc = "find",
                               !.groupId = groupId]]
            /\ resp' = NoResp
    /\ UNCHANGED <<memberships, nextId, users, nextUid, priorInvite>>

\* line 101: Membership.find({ groupId })
FindByGroup(groupId) == {m \in memberships : m.groupId = groupId}

\* lines 101-102: find, respond 200 with the documents
GetGroupMembersFind(p) ==
    /\ calls[p].op = "getGroupMembers"
    /\ calls[p].pc = "find"
    /\ resp' = [NoResp EXCEPT !.op = "getGroupMembers", !.groupId = calls[p].groupId,
                              !.status = 200,
                              !.list = {m.id : m \in FindByGroup(calls[p].groupId)}]
    /\ calls' = [calls EXCEPT ![p] = Idle]
    /\ UNCHANGED <<memberships, nextId, users, nextUid, started, priorInvite>>

\* ------------------------------------------------------- updateMemberStatus
\* lines 118-124: group check
UpdateMemberStatusStart(p, groupId, userId, isAccepted) ==
    /\ CanStart(p)
    /\ started' = started + 1
    /\ IF ~checkGroupExists(groupId)
       THEN /\ resp' = [NoResp EXCEPT !.op = "updateMemberStatus", !.groupId = groupId,
                                      !.ident = userId, !.flag = isAccepted,
                                      !.status = 404]
            /\ calls' = calls
       ELSE /\ calls' = [calls EXCEPT ![p] =
                  [Idle EXCEPT !.op = "updateMemberStatus", !.pc = "find",
                               !.groupId = groupId, !.ident = userId,
                               !.isAccepted = isAccepted]]
            /\ resp' = NoResp
    /\ UNCHANGED <<memberships, nextId, users, nextUid, priorInvite>>

\* lines 126-129: Membership.findOne({ userId, groupId })
UpdateMemberStatusFind(p) ==
    /\ calls[p].op = "updateMemberStatus"
    /\ calls[p].pc = "find"
    /\ IF FindMember(calls[p].ident, calls[p].groupId) = {}
       THEN /\ resp' = [NoResp EXCEPT !.op = "updateMemberStatus",
                                      !.groupId = calls[p].groupId,
                                      !.ident = calls[p].ident,
                                      !.flag = calls[p].isAccepted, !.status = 404]
            /\ calls' = [calls EXCEPT ![p] = Idle]
       ELSE /\ \E m \in FindMember(calls[p].ident, calls[p].groupId) :
                 calls' = [calls EXCEPT ![p].pc = "save", ![p].doc = {m}]
            /\ resp' = NoResp
    /\ UNCHANGED <<memberships, nextId, users, nextUid, started, priorInvite>>

\* line 134: new Membership({ membership }): the schema has no path "membership",
\* so the fresh document carries none of the found document's fields.
UpdatedDocument(id, membership, isAccepted) ==
    [id |-> id, groupId |-> NoGroup, userId |-> NoUser, invitedMail |-> NoMail,
     isAccepted |-> FALSE]

\* lines 131-135: the found document is changed in memory only; a fresh
\* document is saved and returned with 200
UpdateMemberStatusSave(p) ==
    /\ calls[p].op = "updateMemberStatus"
    /\ calls[p].pc = "save"
    /\ nextId <= MaxMemberships
    /\ \E m \in calls[p].doc :
         memberships' = memberships \cup {UpdatedDocument(nextId, m, calls[p].isAccepted)}
    /\ nextId' = nextId + 1
    /\ resp' = [NoResp EXCEPT !.op = "updateMemberStatus", !.groupId = calls[p].groupId,
                              !.ident = calls[p].ident, !.flag = calls[p].isAccepted,
                              !.status = 200, !.found = calls[p].doc,
                              !.created = {nextId}]
    /\ calls' = [calls EXCEPT ![p] = Idle]
    /\ UNCHANGED <<users, nextUid, started, priorInvite>>

\* ------------------------------------------------------------- removeMember
\* history only: a removal request, and a change of the User collection, end
\* every "invited before, nothing removed since" window
ForgetPrior(cs) ==
    [q \in Procs |-> IF cs[q].op = "idle" THEN cs[q]
                     ELSE [cs[q] EXCEPT !.prior = {}, !.quiet = FALSE]]

\* lines 150-155: group check
RemoveMemberStart(p, groupId, userId) ==
    /\ CanStart(p)
    /\ started' = started + 1
    /\ IF ~checkGroupExists(groupId)
       THEN /\ resp' = [NoResp EXCEPT !.op = "removeMember", !.groupId = groupId,
                                      !.ident = userId, !.status = 404]
            /\ calls' = ForgetPrior(calls)
       ELSE /\ calls' = ForgetPrior([calls EXCEPT ![p] =
                  [Idle EXCEPT !.op = "removeMember", !.pc = "deleteInvite",
                               !.groupId = groupId, !.ident = userId]])
            /\ resp' = NoResp
    /\ priorInvite' = {}
    /\ UNCHANGED <<memberships, nextId, users, nextUid>>

\* line 156: the filter of Membership.findOneAndDelete({ invitedMail: userId })
InviteFilter(userId, groupId) == {m \in memberships : m.invitedMail = userId}

\* lines 156-160: delete one matching invite (which one is the store's choice)
RemoveMemberDeleteInvite(p) ==
    /\ calls[p].op = "removeMember"
    /\ calls[p].pc = "deleteInvite"
    /\ IF InviteFilter(calls[p].ident, calls[p].groupId) # {}
       THEN \E m \in InviteFilter(calls[p].ident, calls[p].groupId) :
              /\ memberships' = memberships \ {m}
              /\ resp' = [NoResp EXCEPT !.op = "removeMember",
                                        !.groupId = calls[p].groupId,
                                        !.ident = calls[p].ident, !.status = 200,
                                        !.found = InviteFilter(calls[p].ident, calls[p].groupId),
                                        !.deleted = {m}]
              /\ calls' = ForgetPrior([calls EXCEPT ![p] = Idle])
       ELSE /\ memberships' = memberships
            /\ resp' = NoResp
            /\ calls' = ForgetPrior([calls EXCEPT ![p].pc = "deleteMember"])
    /\ priorInvite' = {}
    /\ UNCHANGED <<nextId, users, nextUid, started>>

\* lines 163-165: a response is sent only when nothing was deleted
RemoveMemberStatus(deleted) == IF deleted = {} THEN 200 ELSE NoResponse

\* lines 162-165: Membership.findOneAndDelete({ userId, groupId })
RemoveMemberDeleteMember(p) ==
    /\ calls[p].op = "removeMember"
    /\ calls[p].pc = "deleteMember"
    /\ \E d \in (IF FindMember(calls[p].ident, calls[p].groupId) = {} THEN {{}}
                 ELSE {{m} : m \in FindMember(calls[p].ident, calls[p].groupId)}) :
         /\ memberships' = memberships \ d
         /\ resp' = [NoResp EXCEPT !.op = "removeMember", !.groupId = calls[p].groupId,
                                   !.ident = calls[p].ident,
                                   !.status = RemoveMemberStatus(d),
                                   !.found = FindMember(calls[p].ident, calls[p].groupId),
                                   !.deleted = d]
    /\ calls' = ForgetPrior([calls EXCEPT ![p] = Idle])
    /\ priorInvite' = {}
    /\ UNCHANGED <<nextId, users, nextUid, started>>

\* ---------------------------------------------------- verifyIsMemberOrOwner
\* line 187: group.ownerId.toString() === userId
IsOwner(groupId, userId) == OwnerOf(groupId) = userId

\* lines 179-189: group check, then the owner comparison
VerifyStart(p, groupId, userId) ==
    /\ CanStart(p)
    /\ started' = started + 1
    /\ IF ~checkGroupExists(groupId)
       THEN /\ resp' = [NoResp EXCEPT !.op = "verifyIsMemberOrOwner",
                                      !.groupId = groupId, !.ident = userId,
                                      !.status = 404]
            /\ calls' = calls
       ELSE IF IsOwner(groupId, userId)
       THEN /\ resp' = [NoResp EXCEPT !.op = "verifyIsMemberOrOwner",
                                      !.groupId = groupId, !.ident = userId,
                                      !.status = 200, !.isMember = TRUE,
                                      !.isOwner = TRUE]
            /\ calls' = calls
       ELSE /\ calls' = [calls EXCEPT ![p] =
                  [Idle EXCEPT !.op = "verifyIsMemberOrOwner", !.pc = "find",
                               !.groupId = groupId, !.ident = userId]]
            /\ resp' = NoResp
    /\ UNCHANGED <<memberships, nextId, users, nextUid, priorInvite>>

\* mutant: the membership lookup's result is not tested
VerifyStatus_Open(found) == 200

\* lines 192-196: the status after Membership.findOne({ groupId, userId })
VerifyStatus(found) == IF found # {} THEN 200 ELSE 403

\* lines 191-196
VerifyFind(p) ==
    /\ calls[p].op = "verifyIsMemberOrOwner"
    /\ calls[p].pc = "find"
    /\ resp' = [NoResp EXCEPT !.op = "verifyIsMemberOrOwner",
                              !.groupId = calls[p].groupId, !.ident = calls[p].ident,
                              !.status = VerifyStatus(FindMember(calls[p].ident, calls[p].groupId)),
                              !.isMember = (VerifyStatus(FindMember(calls[p].ident, calls[p].groupId)) = 200)]
    /\ calls' = [calls EXCEPT ![p] = Idle]
    /\ UNCHANGED <<memberships, nextId, users, nextUid, started, priorInvite>>

\* ------------------------------------------------------------ userController
\* the User collection's unique index on email
EmailTaken(email, exceptId) == \E u \in users : u.email = email /\ u.id # exceptId

\* lines 216-219: User.findOne({ email }), 400 when taken
UserRegisterStart(p, email) ==
    /\ CanStart(p)
    /\ started' = started + 1
    /\ IF UserFindOne(email) # {NoUser}
       THEN /\ resp' = [NoResp EXCEPT !.op = "userRegister", !.ident = email,
                                      !.status = 400]
            /\ calls' = calls
       ELSE /\ calls' = [calls EXCEPT ![p] =
                  [Idle EXCEPT !.op = "userRegister", !.pc = "save", !.ident = email]]
            /\ resp' = NoResp
    /\ UNCHANGED <<memberships, nextId, users, nextUid, priorInvite>>

\* lines 221-227: newUser.save(); a duplicate key rejects and is caught (500)
UserRegisterSave(p) ==
    /\ calls[p].op = "userRegister"
    /\ calls[p].pc = "save"
    /\ IF EmailTaken(calls[p].ident, NoUser)
       THEN /\ resp' = [NoResp EXCEPT !.op = "userRegister", !.ident = calls[p].ident,
                                      !.status = 500]
            /\ UNCHANGED <<users, nextUid>>
       ELSE /\ nextUid <= MaxUsers
            /\ users' = users \cup {[id |-> UidName[nextUid], email |-> calls[p].ident]}
            /\ nextUid' = nextUid + 1
            /\ resp' = [NoResp EXCEPT !.op = "userRegister", !.ident = calls[p].ident,
                                      !.status = 201]
    /\ calls' = ForgetPrior([calls EXCEPT ![p] = Idle])
    /\ priorInvite' = {}
    /\ UNCHANGED <<memberships, nextId, started>>

\* lines 270-286: User.findByIdAndUpdate(userId, updates), updates.email = email
ModifyUser(p, userId, email) ==
    /\ CanStart(p)
    /\ started' = started + 1
    /\ IF ~(\E u \in users : u.id = userId)
       THEN /\ resp' = [NoResp EXCEPT !.op = "modifyUser", !.ident = userId,
                                      !.status = 404]
            /\ users' = users
       ELSE IF EmailTaken(email, userId)
       THEN /\ resp' = [NoResp EXCEPT !.op = "modifyUser", !.ident = userId,
                                      !.status = 500]
            /\ users' = users
       ELSE /\ resp' = [NoResp EXCEPT !.op = "modifyUser", !.ident = userId,
                                      !.status = 200]
            /\ users' = {IF u.id = userId THEN [u EXCEPT !.email = email] ELSE u :
                           u \in users}
    /\ calls' = ForgetPrior(calls)
    /\ priorInvite' = {}
    /\ UNCHANGED <<memberships, nextId, nextUid>>

\* lines 325-332: User.findByIdAndDelete(userId)
DeleteUser(p, userId) ==
    /\ CanStart(p)
    /\ started' = started + 1
    /\ resp' = [NoResp EXCEPT !.op = "deleteUser", !.ident = userId,
                              !.status = IF \E u \in users : u.id = userId
                                         THEN 200 ELSE 404]
    /\ users' = {u \in users : u.id # userId}
    /\ calls' = ForgetPrior(calls)
    /\ priorInvite' = {}
    /\ UNCHANGED <<memberships, nextId, nextUid>>

\* batch-invite requests are served one at a time; its tasks interleave with
\* each other and with every other handler
Inviters == {"p1"}
\* every other request is served by the second handler; registrations are
\* served by both, so that two of them interleave
Others == {"p2"}
TaskIndex == 1..2

Next ==
    \/ \E p \in Inviters, g \in GroupIds, b \in Batches : AddMembersStart(p, g, b)
    \/ \E p \in Procs, i \in TaskIndex : TaskFindUser(p, i)
    \/ \E p \in Procs, i \in TaskIndex : TaskFindMembership(p, i)
    \/ \E p \in Procs, i \in TaskIndex : TaskSave(p, i)
    \/ \E p \in Procs : AddMembersRespond(p)
    \/ \E p \in Others, g \in GroupIds : GetGroupMembersStart(p, g)
    \/ \E p \in Procs : GetGroupMembersFind(p)
    \/ \E p \in Others, g \in GroupIds, u \in UserIds, f \in BOOLEAN :
         UpdateMemberStatusStart(p, g, u, f)
    \/ \E p \in Procs : UpdateMemberStatusFind(p)
    \/ \E p \in Procs : UpdateMemberStatusSave(p)
    \/ \E p \in Others, g \in GroupIds, u \in UserIds \cup Emails : RemoveMemberStart(p, g, u)
    \/ \E p \in Procs : RemoveMemberDeleteInvite(p)
    \/ \E p \in Procs : RemoveMemberDeleteMember(p)
    \/ \E p \in Others, g \in GroupIds, u \in UserIds : VerifyStart(p, g, u)
    \/ \E p \in Procs : VerifyFind(p)
    \/ \E p \in Procs, e \in Emails : UserRegisterStart(p, e)
    \/ \E p \in Procs : UserRegisterSave(p)
    \/ \E p \in Others, u \in UserIds, e \in Emails : ModifyUser(p, u, e)
    \/ \E p \in Others, u \in UserIds : DeleteUser(p, u)

Spec == Init /\ [][Next]_vars

\* ------------------------------------------------- addMembers, store failures
\* mutant: the catch block reports the failure as a partial failure
FailureResponse_Partial(call, tasks) ==
    [NoResp EXCEPT !.op = "addMembers", !.groupId = call.groupId,
                   !.status = 400, !.results = tasks]

\* lines 80-83: res.status(500).json({ message: "Internal server error." })
FailureResponse(call, tasks) ==
    [NoResp EXCEPT !.op = "addMembers", !.groupId = call.groupId,
                   !.status = 500, !.results = tasks]

\* lines 29-63 under try/catch (lines 18, 80-83): an awaited store operation of
\* one task rejects.  Promise.all rejects with the first rejection and the catch
\* block answers; the other tasks are not cancelled and run on, and a later
\* rejection is absorbed by the settled Promise.all.
TaskFail(p, i) ==
    /\ calls[p].op = "addMembers"
    /\ i \in 1..Len(calls[p].tasks)
    /\ calls[p].tasks[i].pc \in {"findUser", "findMembership", "save"}
    /\ calls' = [calls EXCEPT ![p].tasks[i].pc = "failed",
                              ![p].tasks[i].out = "error",
                              ![p].rejected = TRUE]
    /\ resp' = IF calls[p].rejected THEN NoResp
               ELSE FailureResponse(calls[p], calls'[p].tasks)
    /\ UNCHANGED <<memberships, nextId, users, nextUid, started, priorInvite>>

\* the last task of a rejected call has settled: nothing more is sent
AddMembersSettled(p) ==
    /\ calls[p].op = "addMembers"
    /\ calls[p].rejected
    /\ \A i \in 1..Len(calls[p].tasks) : calls[p].tasks[i].pc \in {"done", "failed"}
    /\ calls' = [calls EXCEPT ![p] = Idle]
    /\ resp' = NoResp
    /\ UNCHANGED <<memberships, nextId, users, nextUid, started, priorInvite>>

NextFail ==
    \/ Next
    \/ \E p \in Procs, i \in TaskIndex : TaskFail(p, i)
    \/ \E p \in Procs : AddMembersSettled(p)

\* the handlers with store operations of addMembers' tasks allowed to fail
SpecFail == Init /\ [][NextFail]_vars

\* =================================================================== claims
GroupOps == {"addMembers", "getGroupMembers", "updateMemberStatus", "removeMember",
             "verifyIsMemberOrOwner"}

\* a step of the batch-invite handler p: its start, one of its tasks, its response
InviteStep(p) ==
    /\ calls[p].op = "addMembers" \/ calls'[p].op = "addMembers"
    /\ calls'[p].op # calls[p].op \/ calls'[p].tasks # calls[p].tasks

\* Memberships of group g whose subject is email e: the pending invite of e, or
\* the membership of a User whose email is e
MembershipsFor(e, g) ==
    {m \in memberships :
       /\ m.groupId = g
       /\ \/ m.invitedMail = e
          \/ \E u \in users : u.email = e /\ u.id = m.userId}

\* C1: at most one Membership per (group, user) and per (group, invited-email),
\* in every reachable state.
C1_OnePerPair ==
    \A m1 \in memberships : \A m2 \in memberships :
        (m1 # m2 /\ m1.groupId = m2.groupId /\ m1.groupId # NoGroup) =>
            /\ ~(m1.userId = m2.userId /\ m1.userId # NoUser)
            /\ ~(m1.invitedMail = m2.invitedMail /\ m1.invitedMail # NoMail)

\* C2: a batch-invite that starts after a completed batch-invite of the same
\* email to the same group, with no removal (and no change of the User
\* collection) from that call's response to its own, records "already invited"
\* for that email, responds 400, and leaves one Membership for that
\* (email, group).
C2_SecondInviteRejected ==
    (resp.op = "addMembers" /\ resp.status # 404) =>
        \A e \in resp.prior :
            /\ resp.status = 400
            /\ \A i \in 1..Len(resp.results) :
                   resp.results[i].email = e => i \in resp.errors
            /\ Cardinality(MembershipsFor(e, resp.groupId)) = 1

C4_UpdateInPlace ==
    (resp.op = "updateMemberStatus" /\ resp.found # {}) =>
        /\ resp.status = 200
        /\ resp.created = {}
        /\ \A f \in resp.found : \A m \in memberships :
               m.id = f.id => m.isAccepted = resp.flag

\* C5: a removal on group G whose identifier is the invited-email of a pending
\* invite in G responds 200 and deletes exactly one document, an invite of that
\* email in G.
C5_RemoveInviteOfGroup ==
    (/\ resp.op = "removeMember"
     /\ \E m \in resp.found : m.invitedMail = resp.ident /\ m.groupId = resp.groupId)
    => /\ resp.status = 200
       /\ Cardinality(resp.deleted) = 1
       /\ \A m \in resp.deleted :
              m.invitedMail = resp.ident /\ m.groupId = resp.groupId

\* C6: a removal on an existing group that ran to its end has sent 200.
C6_RemoveResponds ==
    (resp.op = "removeMember" /\ resp.groupId \in Groups) => resp.status = 200

\* C7: access verification on an existing group answers owner / member / 403 by
\* the owner reference and the Membership of (caller, group), and none of its
\* steps changes the store.
C7_VerifyAccess ==
    [][ /\ (resp'.op = "verifyIsMemberOrOwner" /\ resp'.groupId \in Groups) =>
              LET owner  == OwnerOf(resp'.groupId) = resp'.ident
                  member == \E m \in memberships :
                                m.groupId = resp'.groupId /\ m.userId = resp'.ident
              IN  /\ owner =>
                        resp'.status = 200 /\ resp'.isMember /\ resp'.isOwner
                  /\ (~owner /\ member) =>
                        resp'.status = 200 /\ resp'.isMember /\ ~resp'.isOwner
                  /\ (~owner /\ ~member) => resp'.status = 403
        /\ (\/ resp'.op = "verifyIsMemberOrOwner"
            \/ \E p \in Procs : /\ calls'[p].op = "verifyIsMemberOrOwner"
                                /\ calls[p].op # "verifyIsMemberOrOwner")
           => memberships' = memberships /\ users' = users
      ]_vars

\* C7 witness: a non-owner with a Membership was answered member, not owner
C7_Witness ==
    /\ resp.op = "verifyIsMemberOrOwner"
    /\ resp.status = 200
    /\ resp.isMember /\ ~resp.isOwner
    /\ OwnerOf(resp.groupId) # resp.ident

\* the document C8 expects of a task: the invite of its email when the email has
\* no User, else the membership of that User, unaccepted
C8_Expected(id, task, g) ==
    IF task.user = NoUser
    THEN [id |-> id, groupId |-> g, userId |-> NoUser, invitedMail |-> task.email,
          isAccepted |-> FALSE]
    ELSE [id |-> id, groupId |-> g, userId |-> task.user, invitedMail |-> NoMail,
          isAccepted |-> FALSE]

\* C8: a batch-invite of one email with no Membership under its key adds one
\* Membership: the email's invite (no user reference) when no User has the
\* email, the User's membership (no invited-email) otherwise, isAccepted false.
C8_SingleInvite ==
    [][ \A p \in Procs :
          (InviteStep(p) /\ Len(calls[p].tasks) = 1) =>
            LET t  == calls[p].tasks[1]
                t2 == calls'[p].tasks[1]
                g  == calls[p].groupId
            IN  /\ t.pc = "findUser" =>
                     /\ (t2.user = NoUser) = ~(\E u \in users : u.email = t.email)
                     /\ t2.user # NoUser =>
                            \E u \in users : u.id = t2.user /\ u.email = t.email
                     /\ memberships' = memberships
                /\ t.pc = "findMembership" =>
                     /\ (t2.pc = "save") =
                          IF t.user = NoUser
                          THEN ~(\E m \in memberships :
                                    m.invitedMail = t.email /\ m.groupId = g)
                          ELSE ~(\E m \in memberships :
                                    m.userId = t.user /\ m.groupId = g)
                     /\ memberships' = memberships
                /\ t.pc = "save" =>
                     /\ memberships' = memberships \cup {C8_Expected(nextId, t, g)}
                     /\ Cardinality(memberships') = Cardinality(memberships) + 1
                     /\ t2.pc = "done" /\ t2.doc = {C8_Expected(nextId, t, g)}
                /\ t.pc = "done" =>
                     /\ memberships' = memberships
                     /\ resp'.status = IF t.doc # {} THEN 201 ELSE 400
                     /\ resp'.created = {d.id : d \in t.doc}
      ]_vars

\* C8 witness: a one-email batch for an email with no User has saved its invite
C8_Witness ==
    \E p \in Procs :
        /\ calls[p].op = "addMembers"
        /\ Len(calls[p].tasks) = 1
        /\ calls[p].tasks[1].pc = "done"
        /\ calls[p].tasks[1].user = NoUser
        /\ calls[p].tasks[1].doc # {}
        /\ calls[p].tasks[1].doc \subseteq memberships

\* C9: a request of the five group operations naming no existing group is
\* answered 404 by a step that changes neither the store nor any task, and no
\* handler of these operations is ever in flight for a missing group.
C9_MissingGroup ==
    [][ /\ \A p \in Procs :
              calls'[p].op \in GroupOps => calls'[p].groupId \in Groups
        /\ (resp'.op \in GroupOps /\ resp'.groupId \notin Groups) =>
              /\ resp'.status = 404
              /\ memberships' = memberships
              /\ users' = users
              /\ nextId' = nextId
              /\ \A p \in Procs : calls'[p].tasks = calls[p].tasks
      ]_vars

\* C9 witness: a batch-invite for the missing group was answered 404
C9_Witness ==
    /\ resp.op = "addMembers"
    /\ resp.groupId = MissingGroup
    /\ resp.status = 404

\* C10: every Membership has exactly one of userId and invitedMail populated.
C10_OneSubject ==
    \A m \in memberships : (m.userId # NoUser) # (m.invitedMail # NoMail)
C12_RaceWitness ==
    /\ resp.op = "userRegister"
    /\ resp.status = 500
    /\ Cardinality({u \in users : u.email = resp.ident}) = 1
\* two entries of one batch with the same subject (same email, same User.findOne
\* result) whose existence checks both found nothing
C13_Raced(results, i, j) ==
    /\ i < j
    /\ results[i].email = results[j].email
    /\ results[i].user = results[j].user
    /\ ~results[i].hit /\ ~results[j].hit

\* C13: when two entries of one batch with the same subject both pass the
\* existence check, each saves its own Membership: the store got two documents
\* for the same (group, subject), and with no other entry matched the call
\* responds 201 listing both.
C13_DuplicateRace ==
    (resp.op = "addMembers" /\ resp.groupId \in Groups) =>
        \A i \in 1..Len(resp.results) : \A j \in 1..Len(resp.results) :
            C13_Raced(resp.results, i, j) =>
                /\ \E d1 \in resp.results[i].doc : \E d2 \in resp.results[j].doc :
                      /\ d1.id # d2.id
                      /\ d1.groupId = resp.groupId /\ d2.groupId = resp.groupId
                      /\ d1.userId = d2.userId
                      /\ d1.invitedMail = d2.invitedMail
                      /\ (\A k \in 1..Len(resp.results) : ~resp.results[k].hit) =>
                            /\ resp.status = 201
                            /\ {d1.id, d2.id} \subseteq resp.created

\* C13 witness: one call answered 201 and the store holds the two Memberships it
\* created for the same (group, subject)
C13_Witness ==
    /\ resp.op = "addMembers"
    /\ resp.status = 201
    /\ \E i \in 1..Len(resp.results) : \E j \in 1..Len(resp.results) :
          /\ C13_Raced(resp.results, i, j)
          /\ resp.results[i].doc \cup resp.results[j].doc \subseteq memberships
          /\ Cardinality(resp.results[i].doc \cup resp.results[j].doc) = 2

\* the same race between two emails resolved to one User
C13_UserWitness ==
    /\ C13_Witness
    /\ \E i \in 1..Len(resp.results) : resp.results[i].user # NoUser
\* the step is the saving step of a status-update on (g, u)
C14_UpdateStepOn(g, u) ==
    \E p \in Procs :
        /\ calls[p].op = "updateMemberStatus"
        /\ calls[p].pc = "save"
        /\ calls'[p].op = "idle"
        /\ calls[p].groupId = g
        /\ calls[p].ident = u

\* C14: a Membership a batch-invite step inserts has isAccepted = FALSE, and the
\* isAccepted of a Membership that stays in the store changes only in a step of
\* the status-update on its (group, user).
C14_AcceptanceFlag ==
    [][ /\ \A p \in Procs :
              InviteStep(p) => \A m \in memberships' \ memberships : ~m.isAccepted
        /\ \A m \in memberships : \A n \in memberships' :
              (n.id = m.id /\ n.isAccepted # m.isAccepted) =>
                  C14_UpdateStepOn(m.groupId, m.userId)
        /\ \A m \in memberships : \A n \in memberships' :
              n.id = m.id =>
                  /\ n.groupId = m.groupId
                  /\ n.userId = m.userId
                  /\ n.invitedMail = m.invitedMail
      ]_vars

\* C14 witness: a Membership created by a batch-invite is in the store,
\* unaccepted, right after a status-update on its (group, user) was answered 200
C14_Witness ==
    /\ resp.op = "updateMemberStatus"
    /\ resp.status = 200
    /\ \E m \in memberships :
          /\ m.groupId = resp.groupId
          /\ m.userId = resp.ident
          /\ ~m.isAccepted
\* C15: when a store operation of a per-email task fails, the call is answered
\* 500 at that step (the first failure) and never 201 or 400, the failed task
\* does nothing more (no retry), and no step of the call takes a saved
\* Membership out of the store.
C15_StoreFailure ==
    [][ \A p \in Procs :
          /\ \A i \in TaskIndex :
                (/\ i <= Len(calls[p].tasks) /\ i <= Len(calls'[p].tasks)
                 /\ calls[p].op = "addMembers" /\ calls'[p].op = "addMembers"
                 /\ calls[p].tasks[i].pc # "failed"
                 /\ calls'[p].tasks[i].pc = "failed")
                => /\ memberships' = memberships
                   /\ ~calls[p].rejected =>
                         resp'.op = "addMembers" /\ resp'.status = 500
          /\ \A i \in TaskIndex :
                (/\ i <= Len(calls[p].tasks)
                 /\ calls[p].tasks[i].pc = "failed"
                 /\ calls'[p].op = "addMembers")
                => calls'[p].tasks[i] = calls[p].tasks[i]
          /\ (calls[p].op = "addMembers" /\ calls[p].rejected) =>
                resp'.op # "addMembers"
          /\ (resp'.op = "addMembers" /\ resp'.status \in {201, 400}) =>
                \A i \in 1..Len(resp'.results) : resp'.results[i].pc = "done"
          /\ InviteStep(p) => memberships \subseteq memberships'
      ]_vars

\* C15 witness: a call was answered 500 while the Membership another of its
\* tasks saved is in the store
C15_Witness ==
    /\ resp.op = "addMembers"
    /\ resp.status = 500
    /\ \E i \in 1..Len(resp.results) :
          /\ resp.results[i].doc # {}
          /\ resp.results[i].doc \subseteq memberships

\* a task of a call already answered 500 saved its Membership afterwards
C15_LateSaveWitness ==
    \E p \in Procs :
        /\ calls[p].op = "addMembers"
        /\ calls[p].rejected
        /\ \E i \in 1..Len(calls[p].tasks) : \E j \in 1..Len(calls[p].tasks) :
              /\ calls[p].tasks[i].pc = "failed"
              /\ calls[p].tasks[j].doc # {}
              /\ calls[p].tasks[j].doc \subseteq memberships
\* C16: when a removal for an existing group G and a user id U completes, no
\* Membership for (U, G) is left in the store.
C16_RemovalComplete ==
    [][ \A p \in Procs :
          (/\ calls[p].op = "removeMember"
           /\ calls'[p].op = "idle")
          => \A m \in memberships' :
                ~(m.userId = calls[p].ident /\ m.groupId = calls[p].groupId)
      ]_vars

\* C17: no group holds both a pending invite whose invitedMail is E and a
\* Membership of the User whose email is E.
C17_OnePerPerson ==
    \A m \in memberships : \A n \in memberships :
        (/\ m.groupId = n.groupId
         /\ m.groupId \in Groups
         /\ m.invitedMail # NoMail
         /\ n.userId # NoUser)
        => ~\E u \in users : u.id = n.userId /\ u.email = m.invitedMail
====
